---- MODULE Spec2Model ----
(***************************************************************************)
(* The versioned storage engine of asphaleia-storage: Table, Fragment,     *)
(* VersionControl, CacheManager, Backup and the StorageIndex facade.       *)
(*                                                                         *)
(* Byte strings are sequences of naturals.  A digest is the byte string    *)
(* Sha256 gives; Option<T> is <<>> (None) or <<x>> (Some(x)); Result is    *)
(* <<"ok", x>> or <<"err", e>>.                                            *)
(***************************************************************************)
EXTENDS Integers, Sequences, FiniteSets, TLC

\* ------------------------------------------------------------------ bounds
\* plaintext values are <<1>> .. <<MaxVal>>
MaxVal == 2
\* the clock runs from 0 to MaxTime
MaxTime == 1
\* writes stop once the latest version number reaches MaxVersion
MaxVersion == 3
\* Some(m) is drawn with m in 0 .. MaxRetention
MaxRetention == 2
\* the cache capacity (max_size) is drawn from 0 .. MaxCacheSize
MaxCacheSize == 2
\* the cache ttl is drawn from 1 .. MaxTtl
MaxTtl == 1
\* a run makes at most MaxCalls calls of the API
MaxCalls == 4

\* ------------------------------------------------------- Option and Result
None == <<>>
Some(x) == <<x>>
IsSome(o) == o # <<>>
Unwrap(o) == o[1]

Ok(x) == <<"ok", x>>
Err(e) == <<"err", e>>
IsOk(r) == r[1] = "ok"
IsErr(r) == r[1] = "err"

\* ------------------------------------------------- external collaborators
\* SHA-256 as an ideal (collision-free) hash: the digest of b determines b.
Sha256(bytes) == <<Len(bytes)>> \o bytes

\* the raw bytes of a digest
as_bytes(digest) == digest

\* zstd without a dictionary: a frame is a magic number and the payload
compress_bytes(data, level) == <<253>> \o data

decompress_bytes(data) ==
    IF Len(data) >= 1 /\ data[1] = 253 THEN Ok(Tail(data)) ELSE Err("zstd")

\* zstd with a dictionary: the frame names the dictionary it needs
compress_bytes_with_dict(data, level, dict) == <<254, Len(dict)>> \o dict \o data

decompress_bytes_with_dict(data, dict) ==
    IF /\ Len(data) >= 2 + Len(dict)
       /\ data[1] = 254
       /\ data[2] = Len(dict)
       /\ SubSeq(data, 3, 2 + Len(dict)) = dict
    THEN Ok(SubSeq(data, 3 + Len(dict), Len(data)))
    ELSE Err("zstd")

\* ------------------------------------------------------------------- Table
\* lexicographic order of byte strings: the Ord of Sha256 (a byte array)
RECURSIVE LexLess(_, _)
LexLess(a, b) ==
    IF b = <<>> THEN FALSE
    ELSE IF a = <<>> THEN TRUE
    ELSE IF a[1] # b[1] THEN a[1] < b[1]
    ELSE LexLess(Tail(a), Tail(b))

\* iteration that starts from the greatest key
FirstKey_descending(S) == CHOOSE k \in S : \A j \in S : j = k \/ LexLess(j, k)

\* the first key of a non-empty set of keys in BTreeMap order
FirstKey(S) == CHOOSE k \in S : \A j \in S : j = k \/ LexLess(k, j)

\* (n as u32).to_be_bytes(): the low four bytes of n, most significant first
u32_to_be_bytes(n) ==
    << (n \div 16777216) % 256, (n \div 65536) % 256, (n \div 256) % 256, n % 256 >>

\* Table::new: a map from digest to compressed bytes
Table_new == [k \in {} |-> <<>>]

Table_insert(table, value, key) ==
    [k \in DOMAIN table \cup {key} |-> IF k = key THEN value ELSE table[k]]

Table_get(table, key) == IF key \in DOMAIN table THEN Some(table[key]) ELSE None

Table_remove(table, key) == [k \in DOMAIN table \ {key} |-> table[k]]

Table_len(table) == Cardinality(DOMAIN table)

\* Table::to_bytes: per entry in key order, key bytes, BE length, value
RECURSIVE Table_emit(_, _)
Table_emit(table, keys) ==
    IF keys = {} THEN <<>>
    ELSE LET k == FirstKey(keys)
         IN  as_bytes(k) \o u32_to_be_bytes(Len(table[k])) \o table[k]
                \o Table_emit(table, keys \ {k})

Table_to_bytes(table) == Table_emit(table, DOMAIN table)

\* ---------------------------------------------------------------- Fragment
\* bincode of a String: its length, then its bytes
StringBytes(s) ==
    CASE s = "zstd" -> <<4, 122, 115, 116, 100>>
      [] s = "zstd  " -> <<6, 122, 115, 116, 100, 32, 32>>
      [] OTHER -> <<0>>

\* bincode::serialize(&metadata)
Metadata_bytes(m) ==
    <<m.creation_date, m.last_modified>> \o StringBytes(m.compression)
        \o <<m.compression_level>>
        \o (IF IsSome(m.compression_dict)
            THEN <<1, Len(Unwrap(m.compression_dict))>> \o Unwrap(m.compression_dict)
            ELSE <<0>>)
        \o <<m.size>>

Fragment_new(compression, compression_level, compression_dict, t) ==
    [ table |-> Table_new,
      hash |-> Sha256(Table_to_bytes(Table_new)),
      metadata |-> [ creation_date |-> t,
                     last_modified |-> t,
                     compression |-> compression,
                     compression_level |-> compression_level,
                     compression_dict |-> compression_dict,
                     size |-> 0 ] ]

\* update_hash that refreshes the date and leaves the hash
Fragment_update_hash_stale(f, t) == [f EXCEPT !.metadata.last_modified = t]

Fragment_update_hash(f, t) ==
    [f EXCEPT !.hash = Sha256(Table_to_bytes(f.table)),
              !.metadata.last_modified = t]

\* the codec the Fragment's policy selects
Fragment_compress(f, value) ==
    IF IsSome(f.metadata.compression_dict)
    THEN compress_bytes_with_dict(value, f.metadata.compression_level,
                                  Unwrap(f.metadata.compression_dict))
    ELSE compress_bytes(value, f.metadata.compression_level)

Fragment_decompress(f, compressed) ==
    IF IsSome(f.metadata.compression_dict)
    THEN decompress_bytes_with_dict(compressed, Unwrap(f.metadata.compression_dict))
    ELSE decompress_bytes(compressed)

\* Fragment::insert handing back the previous value decompressed
Fragment_insert_returns_plaintext(f, value, key, t) ==
    LET result == IF key \in DOMAIN f.table
                  THEN Some(Fragment_decompress(f, f.table[key])[2])
                  ELSE None
        g == [f EXCEPT !.table = Table_insert(f.table, Fragment_compress(f, value), key)]
        h == Fragment_update_hash(g, t)
    IN  [ res |-> Ok(result),
          frag |-> [h EXCEPT !.metadata.size = Table_len(h.table)] ]

\* Fragment::insert: the previous compressed slot, and the Fragment after
Fragment_insert(f, value, key, t) ==
    LET result == Table_get(f.table, key)
        g == [f EXCEPT !.table = Table_insert(f.table, Fragment_compress(f, value), key)]
        h == Fragment_update_hash(g, t)
    IN  [ res |-> Ok(result),
          frag |-> [h EXCEPT !.metadata.size = Table_len(h.table)] ]

\* Fragment::get: Ok(None), Ok(Some(plaintext)) or Err(DecompressionError)
Fragment_get(f, key) ==
    IF key \notin DOMAIN f.table THEN Ok(None)
    ELSE LET d == Fragment_decompress(f, f.table[key])
         IN  IF IsOk(d) THEN Ok(Some(d[2])) ELSE Err("DecompressionError")

\* Fragment::remove handing back the raw compressed slot
Fragment_remove_raw_slot(f, key, t) ==
    LET result == Table_get(f.table, key)
        g == [f EXCEPT !.table = Table_remove(f.table, key)]
        h == Fragment_update_hash(g, t)
    IN  [ res |-> result,
          frag |-> [h EXCEPT !.metadata.size = Table_len(h.table)] ]

\* Fragment::remove: the removed plaintext if any (a slot that fails to
\* decompress panics), and the Fragment after
Fragment_remove(f, key, t) ==
    LET result == Table_get(f.table, key)
        g == [f EXCEPT !.table = Table_remove(f.table, key)]
        h == Fragment_update_hash(g, t)
        d == Fragment_decompress(f, Unwrap(result))
    IN  [ res |-> IF ~IsSome(result) THEN None
                  ELSE IF IsOk(d) THEN Some(d[2]) ELSE <<"panic">>,
          frag |-> [h EXCEPT !.metadata.size = Table_len(h.table)] ]

Fragment_len(f) == Table_len(f.table)

\* the last key of a non-empty set of keys in BTreeMap order
LastKey(S) == CHOOSE k \in S : \A j \in S : j = k \/ LexLess(j, k)

\* Table::pop_first / pop_last: the entry taken if any, and the table after
Table_pop(table, k) ==
    IF DOMAIN table = {} THEN [res |-> None, table |-> table]
    ELSE [res |-> Some(<<k, table[k]>>), table |-> Table_remove(table, k)]

Table_pop_first(table) ==
    Table_pop(table, IF DOMAIN table = {} THEN <<>> ELSE FirstKey(DOMAIN table))

Table_pop_last(table) ==
    Table_pop(table, IF DOMAIN table = {} THEN <<>> ELSE LastKey(DOMAIN table))

\* Table::append: the entries of other move in and replace equal keys
Table_append(table, other) ==
    [k \in DOMAIN table \cup DOMAIN other |-> IF k \in DOMAIN other THEN other[k] ELSE table[k]]

\* Fragment::clear
Fragment_clear(f, t) ==
    LET g == [f EXCEPT !.table = Table_new]
        h == Fragment_update_hash(g, t)
    IN  [h EXCEPT !.metadata.size = 0]

\* Fragment::append: the receiver after, and other after (its table is
\* drained; its hash and size are not touched)
Fragment_append(f, other, t) ==
    LET g == [f EXCEPT !.table = Table_append(f.table, other.table)]
        h == Fragment_update_hash(g, t)
    IN  [ frag |-> [h EXCEPT !.metadata.size = Table_len(h.table)],
          other |-> [other EXCEPT !.table = Table_new] ]

\* the tail of pop_first / pop_last: the popped entry decompressed
Fragment_popped(f, popped, t) ==
    LET g == [f EXCEPT !.table = popped.table]
        h == Fragment_update_hash(g, t)
        d == Fragment_decompress(f, Unwrap(popped.res)[2])
    IN  [ res |-> IF ~IsSome(popped.res) THEN Ok(None)
                  ELSE IF IsOk(d) THEN Ok(Some(<<Unwrap(popped.res)[1], d[2]>>))
                  ELSE Err("DecompressionError"),
          frag |-> [h EXCEPT !.metadata.size = Table_len(h.table)] ]

Fragment_pop_first(f, t) == Fragment_popped(f, Table_pop_first(f.table), t)

Fragment_pop_last(f, t) == Fragment_popped(f, Table_pop_last(f.table), t)

\* Fragment::to_bytes: table bytes, hash bytes, serialized metadata
Fragment_to_bytes(f) ==
    Table_to_bytes(f.table) \o as_bytes(f.hash) \o Metadata_bytes(f.metadata)

\* ---------------------------------------------------------- VersionControl
Version_new(fragment, t) == [creation_date |-> t, version |-> 1, fragment |-> fragment]

\* increment that refreshes the date and leaves the number
Version_increment_stale(v, t) == [v EXCEPT !.creation_date = t]

Version_increment(v, t) == [v EXCEPT !.version = v.version + 1, !.creation_date = t]

genesis_version(t) ==
    [creation_date |-> t, version |-> 0, fragment |-> Fragment_new("zstd  ", 3, None, t)]

VersionControl_new(max_versions, t) ==
    [versions |-> <<genesis_version(t)>>, max_versions |-> max_versions]

\* trimming that drops the newest Versions
TrimFront_drops_newest(versions, max) ==
    IF Len(versions) > max THEN SubSeq(versions, 1, max) ELSE versions

\* trimming with >= for >
RECURSIVE TrimFront_off_by_one(_, _)
TrimFront_off_by_one(versions, max) ==
    IF Len(versions) >= max /\ Len(versions) > 0
    THEN TrimFront_off_by_one(Tail(versions), max)
    ELSE versions

\* while self.versions.len() > max { self.versions.remove(0); }
RECURSIVE TrimFront(_, _)
TrimFront(versions, max) ==
    IF Len(versions) > max THEN TrimFront(Tail(versions), max) ELSE versions

\* add_version that numbers every Version as Version::new does
VersionControl_add_version_always_new(vc, fragment, t) ==
    LET pushed == Append(vc.versions, Version_new(fragment, t))
    IN  [vc EXCEPT !.versions =
            IF IsSome(vc.max_versions)
            THEN TrimFront(pushed, Unwrap(vc.max_versions))
            ELSE pushed]

VersionControl_add_version(vc, fragment, t) ==
    LET new_version ==
            IF Len(vc.versions) > 0
            THEN [Version_increment(vc.versions[Len(vc.versions)], t)
                    EXCEPT !.fragment = fragment]
            ELSE Version_new(fragment, t)
        pushed == Append(vc.versions, new_version)
    IN  [vc EXCEPT !.versions =
            IF IsSome(vc.max_versions)
            THEN TrimFront(pushed, Unwrap(vc.max_versions))
            ELSE pushed]

\* position(|v| v.version == version): the first index holding that number
PositionOf(versions, version) ==
    IF \E i \in 1..Len(versions) : versions[i].version = version
    THEN Some(CHOOSE i \in 1..Len(versions) :
                /\ versions[i].version = version
                /\ \A j \in 1..(i-1) : versions[j].version # version)
    ELSE None

VersionControl_get_version(vc, version) ==
    LET p == PositionOf(vc.versions, version)
    IN  IF IsSome(p) THEN Some(vc.versions[Unwrap(p)]) ELSE None

VersionControl_get_latest_version(vc) ==
    IF Len(vc.versions) > 0 THEN Some(vc.versions[Len(vc.versions)]) ELSE None

\* rollback that truncates the target away as well
VersionControl_rollback_drops_target(vc, version) ==
    LET p == PositionOf(vc.versions, version)
    IN  IF IsSome(p)
        THEN [ res |-> Some(vc.versions[Unwrap(p)].fragment),
               vc |-> [vc EXCEPT !.versions = SubSeq(vc.versions, 1, Unwrap(p) - 1)] ]
        ELSE [ res |-> None, vc |-> vc ]

\* rollback that returns the Fragment and forgets to truncate
VersionControl_rollback_keeps_tail(vc, version) ==
    LET p == PositionOf(vc.versions, version)
    IN  IF IsSome(p)
        THEN [ res |-> Some(vc.versions[Unwrap(p)].fragment), vc |-> vc ]
        ELSE [ res |-> None, vc |-> vc ]

\* VersionControl::rollback: the Fragment rolled back to, and the log after
VersionControl_rollback(vc, version) ==
    LET p == PositionOf(vc.versions, version)
    IN  IF IsSome(p)
        THEN [ res |-> Some(vc.versions[Unwrap(p)].fragment),
               vc |-> [vc EXCEPT !.versions = SubSeq(vc.versions, 1, Unwrap(p))] ]
        ELSE [ res |-> None, vc |-> vc ]

VersionControl_get_history(vc) == vc.versions

VersionControl_get_version_count(vc) == Len(vc.versions)

\* clear_history keeping the oldest Version for the latest
VersionControl_clear_history_keeps_first(vc) ==
    IF Len(vc.versions) > 0
    THEN [vc EXCEPT !.versions = <<vc.versions[1]>>]
    ELSE vc

VersionControl_clear_history(vc) ==
    IF Len(vc.versions) > 0
    THEN [vc EXCEPT !.versions = <<vc.versions[Len(vc.versions)]>>]
    ELSE vc

\* set_max_versions that stores the bound and does not trim
VersionControl_set_max_versions_no_trim(vc, max_versions) ==
    [versions |-> vc.versions, max_versions |-> max_versions]

VersionControl_set_max_versions(vc, max_versions) ==
    [ versions |-> IF IsSome(max_versions)
                   THEN TrimFront(vc.versions, Unwrap(max_versions))
                   ELSE vc.versions,
      max_versions |-> max_versions ]

VersionControl_get_max_versions(vc) == vc.max_versions

\* ------------------------------------------------------------------ Backup
Backup_get_latest_version(b) ==
    IF Len(b.version_control.versions) > 0
    THEN Some(b.version_control.versions[Len(b.version_control.versions)].fragment)
    ELSE None

\* the Backup's latest Fragment
Latest(b) == Unwrap(Backup_get_latest_version(b))

\* update_hash that leaves the stored hash as it was
Backup_update_hash_stale(b) == b

Backup_update_hash(b) ==
    IF IsSome(Backup_get_latest_version(b))
    THEN [b EXCEPT !.hash = Sha256(Fragment_to_bytes(Unwrap(Backup_get_latest_version(b))))]
    ELSE b

Backup_new(fragment, max_versions, t) ==
    [ metadata |-> [ creation_date |-> t,
                     fragment_count |-> 1,
                     total_size |-> Fragment_len(fragment),
                     version_count |-> 1,
                     compression_level |-> None,
                     max_versions |-> max_versions ],
      version_control |->
          VersionControl_add_version(VersionControl_new(max_versions, t), fragment, t),
      hash |-> Sha256(Fragment_to_bytes(fragment)) ]

Backup_add_version(b, fragment, t) ==
    LET vc == VersionControl_add_version(b.version_control, fragment, t)
    IN  Backup_update_hash(
            [b EXCEPT !.version_control = vc,
                      !.metadata.fragment_count = VersionControl_get_version_count(vc),
                      !.metadata.total_size = b.metadata.total_size + Fragment_len(fragment),
                      !.metadata.version_count = VersionControl_get_version_count(vc)])

\* rollback that refreshes the metadata whether or not the target was found
Backup_rollback_always_recounts(b, version) ==
    LET r == VersionControl_rollback(b.version_control, version)
    IN  [ res |-> r.res,
          backup |-> Backup_update_hash(
               [b EXCEPT !.version_control = r.vc,
                         !.metadata.fragment_count = VersionControl_get_version_count(r.vc),
                         !.metadata.total_size =
                            IF IsSome(r.res) THEN Fragment_len(Unwrap(r.res)) ELSE 0,
                         !.metadata.version_count = VersionControl_get_version_count(r.vc)]) ]

\* Backup::rollback: the Fragment rolled back to if any, and the Backup after
Backup_rollback(b, version) ==
    LET r == VersionControl_rollback(b.version_control, version)
    IN  IF IsSome(r.res)
        THEN [ res |-> r.res,
               backup |-> Backup_update_hash(
                   [b EXCEPT !.version_control = r.vc,
                             !.metadata.fragment_count = VersionControl_get_version_count(r.vc),
                             !.metadata.total_size = Fragment_len(Unwrap(r.res)),
                             !.metadata.version_count = VersionControl_get_version_count(r.vc)]) ]
        ELSE [ res |-> None, backup |-> [b EXCEPT !.version_control = r.vc] ]

Backup_set_max_versions(b, max_versions) ==
    [b EXCEPT !.version_control = VersionControl_set_max_versions(b.version_control, max_versions),
              !.metadata.max_versions = max_versions]

Backup_get_max_versions(b) == VersionControl_get_max_versions(b.version_control)

Backup_clear_history(b) ==
    LET vc == VersionControl_clear_history(b.version_control)
    IN  IF Len(vc.versions) > 0
        THEN [b EXCEPT !.version_control = vc,
                       !.metadata.fragment_count = 1,
                       !.metadata.total_size = Fragment_len(vc.versions[Len(vc.versions)].fragment),
                       !.metadata.version_count = 1]
        ELSE [b EXCEPT !.version_control = vc]

Backup_get_history(b) ==
    [i \in 1..Len(b.version_control.versions) |-> b.version_control.versions[i].fragment]

\* ------------------------------------------------------------ CacheManager
CacheManager_new(config) == [cache |-> [k \in {} |-> <<>>], config |-> config]

Cache_remove_key(c, key) == [k \in DOMAIN c \ {key} |-> c[k]]

Cache_put(c, key, entry) == [k \in DOMAIN c \cup {key} |-> IF k = key THEN entry ELSE c[k]]

\* eviction that takes any entry, whatever the strategy
EvictCandidates_any(cm) == DOMAIN cm.cache

\* the keys evict() may remove: the least recently accessed entries (the
\* first of them in HashMap order, which is arbitrary) or, for
\* FirstInFirstOut, the first key in HashMap order
EvictCandidates(cm) ==
    IF cm.config.eviction_strategy = "LeastRecentlyUsed"
    THEN {k \in DOMAIN cm.cache :
            \A j \in DOMAIN cm.cache : cm.cache[k].last_accessed <= cm.cache[j].last_accessed}
    ELSE DOMAIN cm.cache

\* insert that places the entry without evicting
CacheManager_insert_no_evict(cm, fragment, t) ==
    {[res |-> Ok(<<>>),
      cm |-> [cm EXCEPT !.cache = Cache_put(cm.cache, Sha256(Fragment_to_bytes(fragment)),
                                            [fragment |-> fragment, last_accessed |-> t])]]}

\* CacheManager::insert: every (result, cache after) the call can produce
CacheManager_insert(cm, fragment, t) ==
    LET key == Sha256(Fragment_to_bytes(fragment))
        entry == [fragment |-> fragment, last_accessed |-> t]
    IN  IF Cardinality(DOMAIN cm.cache) >= cm.config.max_size
        THEN IF DOMAIN cm.cache = {}
             THEN {[res |-> Err("InsertionError"), cm |-> cm]}
             ELSE {[res |-> Ok(<<>>),
                    cm |-> [cm EXCEPT !.cache = Cache_put(Cache_remove_key(cm.cache, e), key, entry)]]
                   : e \in EvictCandidates(cm)}
        ELSE {[res |-> Ok(<<>>), cm |-> [cm EXCEPT !.cache = Cache_put(cm.cache, key, entry)]]}

\* an insert that is dropped
CacheAfterInsert_dropped(cm, fragment, t) == {cm}

\* a clear that leaves the entries
CacheManager_clear_keeps(cm) == cm

\* CacheManager::get on a hit: the entry is touched
CacheManager_touch(cm, key, t) == [cm EXCEPT !.cache[key].last_accessed = t]

CacheManager_clear(cm) == [cm EXCEPT !.cache = [k \in {} |-> <<>>]]

\* CacheManager::get that touches every entry
CacheManager_get_touches_all(cm, key, t) ==
    IF key \in DOMAIN cm.cache
    THEN [ res |-> Some(cm.cache[key].fragment),
           cm |-> [cm EXCEPT !.cache = [k \in DOMAIN cm.cache |->
                                            [cm.cache[k] EXCEPT !.last_accessed = t]]] ]
    ELSE [ res |-> None, cm |-> cm ]

\* CacheManager::get: the Fragment if any, and the cache after
CacheManager_get(cm, key, t) ==
    IF key \in DOMAIN cm.cache
    THEN [ res |-> Some(cm.cache[key].fragment), cm |-> CacheManager_touch(cm, key, t) ]
    ELSE [ res |-> None, cm |-> cm ]

\* CacheManager::remove: the Fragment if any, and the cache after
CacheManager_remove(cm, key) ==
    IF key \in DOMAIN cm.cache
    THEN [ res |-> Some(cm.cache[key].fragment),
           cm |-> [cm EXCEPT !.cache = Cache_remove_key(cm.cache, key)] ]
    ELSE [ res |-> None, cm |-> cm ]

\* evict_expired that keeps an entry of age ttl
CacheManager_evict_expired_inclusive(cm, t) ==
    [cm EXCEPT !.cache =
        [k \in {j \in DOMAIN cm.cache : t - cm.cache[j].last_accessed <= cm.config.ttl}
            |-> cm.cache[k]]]

CacheManager_evict_expired(cm, t) ==
    [cm EXCEPT !.cache =
        [k \in {j \in DOMAIN cm.cache : t - cm.cache[j].last_accessed < cm.config.ttl}
            |-> cm.cache[k]]]

\* ------------------------------------------------------------ StorageIndex
VARIABLES
    backup,           \* StorageIndex.backup
    cache,            \* StorageIndex.cache
    version_control,  \* StorageIndex.version_control, the shadow log
    now,              \* the clock
    last,             \* the last call: its name, arguments and result
    ghost,            \* history the claims refer to; no operation reads it
    calls,            \* the number of calls made so far
    vc,               \* a VersionControl on its own
    vcg,              \* history of vc the claims refer to
    disk,             \* the files of the backup directory
    frag              \* a Fragment on its own

vars == <<backup, cache, version_control, now, last, ghost, calls, vc, vcg, disk, frag>>

Values == {<<v>> : v \in 1..MaxVal}
OptRetention == {None} \cup {Some(m) : m \in 0..MaxRetention}
CacheConfigs ==
    [ max_size : 0..MaxCacheSize,
      ttl : 1..MaxTtl,
      eviction_strategy : {"LeastRecentlyUsed", "FirstInFirstOut"} ]

\* the keys a caller passes: digests of values, and digests of Fragments it
\* holds (a cached Fragment is one get_version_history or rollback handed
\* out, and Fragment::to_bytes is public).  Only Fragments keyed by value
\* digests alone are drawn, which bounds the nesting of digests.
ValueKeys == {Sha256(v) : v \in Values}
FragmentKeys ==
    {k \in DOMAIN cache.cache : DOMAIN cache.cache[k].fragment.table \subseteq ValueKeys}
KeyInputs == ValueKeys \cup FragmentKeys

Call(op, key, value, version, res) ==
    [op |-> op, key |-> key, value |-> value, version |-> version, res |-> res]

\* plaintext maps, kept beside the engine
EmptyMap == [k \in {} |-> <<>>]
MapPut(m, k, v) == [j \in DOMAIN m \cup {k} |-> IF j = k THEN v ELSE m[j]]
MapDel(m, k) == [j \in DOMAIN m \ {k} |-> m[j]]
MapGet(m, k) == IF k \in DOMAIN m THEN Ok(m[k]) ELSE Err("KeyNotFound")
Max(a, b) == IF a >= b THEN a ELSE b

LatestNumber(b) ==
    IF Len(b.version_control.versions) > 0
    THEN b.version_control.versions[Len(b.version_control.versions)].version
    ELSE 0

\* the number add_version gives the Version it pushes
NextNumber(b) ==
    IF Len(b.version_control.versions) > 0 THEN LatestNumber(b) + 1 ELSE 1

\* after a write that left the plaintext map snap
GhostWrite(snap, keys) ==
    [ghost EXCEPT !.snaps = IF ghost.pure THEN Append(ghost.snaps, snap) ELSE <<>>,
                  !.written = IF ghost.pure THEN ghost.written \cup keys ELSE {},
                  !.expect = None,
                  !.reused = NextNumber(backup) <= ghost.max_created,
                  !.max_created = Max(ghost.max_created, NextNumber(backup))]

LastSnap == ghost.snaps[Len(ghost.snaps)]

\* StorageIndex::new
StorageIndex_new(cache_config, max_versions, t) ==
    [ backup |-> Backup_new(Fragment_new("zstd", 3, None, t), max_versions, t),
      cache |-> CacheManager_new(cache_config),
      version_control |-> VersionControl_new(max_versions, t) ]

IndexInit ==
    \E cfg \in CacheConfigs, mv \in OptRetention :
        LET idx == StorageIndex_new(cfg, mv, 0)
        IN  /\ backup = idx.backup
            /\ cache = idx.cache
            /\ version_control = idx.version_control
            /\ ghost = [ pure |-> mv = None,
                         snaps |-> IF mv = None THEN <<EmptyMap, EmptyMap>> ELSE <<>>,
                         written |-> {},
                         expect |-> None,
                         reused |-> FALSE,
                         max_created |-> 1,
                         max_in_force |-> mv, saved_max |-> None,
                         mutations |-> 0 ]

\* a lookup that answers an absent key with empty bytes
GetFrom_absent_is_empty(fragment, key) ==
    IF key \in DOMAIN fragment.table /\ IsOk(Fragment_get(fragment, key))
    THEN Ok(Unwrap(Fragment_get(fragment, key)[2]))
    ELSE Ok(<<>>)

\* what get returns for a key looked up in a Fragment
GetFrom(fragment, key) ==
    LET r == Fragment_get(fragment, key)
    IN  IF IsErr(r) THEN Err("FragmentError")
        ELSE IF IsSome(r[2]) THEN Ok(Unwrap(r[2]))
        ELSE Err("KeyNotFound")

\* the result of StorageIndex::get(key) in a state
StorageIndex_get_result(b, c, key) ==
    IF key \in DOMAIN c.cache
    THEN GetFrom(c.cache[key].fragment, key)
    ELSE IF IsSome(Backup_get_latest_version(b))
         THEN GetFrom(Unwrap(Backup_get_latest_version(b)), key)
         ELSE Err("VersionNotFound")

\* let _ = self.cache.insert(fragment): the caches the call can leave
CacheAfterInsert(cm, fragment, t) == {o.cm : o \in CacheManager_insert(cm, fragment, t)}

CanWrite == LatestNumber(backup) < MaxVersion

\* insert that surfaces the Cache's error to the caller
Insert_surfaces_cache_error(value, key_opt) ==
    LET latest == Backup_get_latest_version(backup)
        key == IF IsSome(key_opt) THEN Unwrap(key_opt) ELSE Sha256(value)
    IN  IF ~IsSome(latest)
        THEN /\ last' = Call("insert", key, value, 0, Err("VersionNotFound"))
             /\ UNCHANGED <<backup, cache, version_control, ghost>>
        ELSE LET r == Fragment_insert(Unwrap(latest), value, key, now)
             IN  \E o \in CacheManager_insert(cache, r.frag, now) :
                    IF IsErr(o.res)
                    THEN /\ last' = Call("insert", key, value, 0, Err("CacheError"))
                         /\ UNCHANGED <<backup, cache, version_control, ghost>>
                    ELSE /\ CanWrite
                         /\ cache' = o.cm
                         /\ backup' = Backup_add_version(backup, r.frag, now)
                         /\ version_control' =
                                VersionControl_add_version(version_control, r.frag, now)
                         /\ last' = Call("insert", key, value, 0, r.res)
                         /\ ghost' = [GhostWrite(IF ghost.pure THEN MapPut(LastSnap, key, value)
                                                 ELSE EmptyMap, {key})
                                        EXCEPT !.mutations = ghost.mutations + 1]

\* StorageIndex::insert
Insert(value, key_opt) ==
    LET latest == Backup_get_latest_version(backup)
        key == IF IsSome(key_opt) THEN Unwrap(key_opt) ELSE Sha256(value)
    IN  IF ~IsSome(latest)
        THEN /\ last' = Call("insert", key, value, 0, Err("VersionNotFound"))
             /\ UNCHANGED <<backup, cache, version_control, ghost>>
        ELSE LET r == Fragment_insert(Unwrap(latest), value, key, now)
             IN  /\ CanWrite
                 /\ cache' \in CacheAfterInsert(cache, r.frag, now)
                 /\ backup' = Backup_add_version(backup, r.frag, now)
                 /\ version_control' = VersionControl_add_version(version_control, r.frag, now)
                 /\ last' = Call("insert", key, value, 0, r.res)
                 /\ ghost' = [GhostWrite(IF ghost.pure THEN MapPut(LastSnap, key, value)
                                          ELSE EmptyMap, {key})
                                EXCEPT !.mutations = ghost.mutations + 1]

\* StorageIndex::get
Get(key) ==
    /\ last' = Call("get", key, <<>>, 0, StorageIndex_get_result(backup, cache, key))
    /\ IF key \in DOMAIN cache.cache
       THEN cache' = CacheManager_touch(cache, key, now)
       ELSE IF IsSome(Backup_get_latest_version(backup))
            THEN cache' \in CacheAfterInsert(cache, Unwrap(Backup_get_latest_version(backup)), now)
            ELSE cache' = cache
    /\ UNCHANGED <<backup, version_control, ghost>>

\* remove that installs the clone in the Cache before looking at the result
Remove_caches_before_check(key) ==
    LET latest == Backup_get_latest_version(backup)
    IN  IF ~IsSome(latest)
        THEN /\ last' = Call("remove", key, <<>>, 0, Err("VersionNotFound"))
             /\ UNCHANGED <<backup, cache, version_control, ghost>>
        ELSE LET r == Fragment_remove(Unwrap(latest), key, now)
             IN  IF ~IsSome(r.res)
                 THEN /\ last' = Call("remove", key, <<>>, 0, Err("KeyNotFound"))
                      /\ cache' \in CacheAfterInsert(cache, r.frag, now)
                      /\ UNCHANGED <<backup, version_control, ghost>>
                 ELSE /\ CanWrite
                      /\ cache' \in CacheAfterInsert(cache, r.frag, now)
                      /\ backup' = Backup_add_version(backup, r.frag, now)
                      /\ version_control' = VersionControl_add_version(version_control, r.frag, now)
                      /\ last' = Call("remove", key, GetFrom(Unwrap(latest), key), 0, Ok(Unwrap(r.res)))
                      /\ ghost' = [GhostWrite(IF ghost.pure THEN MapDel(LastSnap, key)
                                               ELSE EmptyMap, {})
                                     EXCEPT !.mutations = ghost.mutations + 1]

\* StorageIndex::remove
Remove(key) ==
    LET latest == Backup_get_latest_version(backup)
    IN  IF ~IsSome(latest)
        THEN /\ last' = Call("remove", key, <<>>, 0, Err("VersionNotFound"))
             /\ UNCHANGED <<backup, cache, version_control, ghost>>
        ELSE LET r == Fragment_remove(Unwrap(latest), key, now)
             IN  IF ~IsSome(r.res)
                 THEN /\ last' = Call("remove", key, <<>>, 0, Err("KeyNotFound"))
                      /\ UNCHANGED <<backup, cache, version_control, ghost>>
                 ELSE /\ CanWrite
                      /\ cache' \in CacheAfterInsert(cache, r.frag, now)
                      /\ backup' = Backup_add_version(backup, r.frag, now)
                      /\ version_control' = VersionControl_add_version(version_control, r.frag, now)
                      /\ last' = Call("remove", key, GetFrom(Unwrap(latest), key), 0, Ok(Unwrap(r.res)))
                      /\ ghost' = [GhostWrite(IF ghost.pure THEN MapDel(LastSnap, key)
                                               ELSE EmptyMap, {})
                                     EXCEPT !.mutations = ghost.mutations + 1]

\* create_new_version that pushes a fresh Fragment for the clone of the latest
CreateNewVersion_pushes_fresh ==
    IF ~IsSome(Backup_get_latest_version(backup))
    THEN /\ last' = Call("create_new_version", <<>>, <<>>, 0, Err("VersionNotFound"))
         /\ UNCHANGED <<backup, cache, version_control, ghost>>
    ELSE /\ CanWrite
         /\ backup' = Backup_add_version(backup, Fragment_new("zstd", 3, None, now), now)
         /\ last' = Call("create_new_version", <<>>, <<>>, 0, Ok(<<>>))
         /\ ghost' = GhostWrite(IF ghost.pure THEN LastSnap ELSE EmptyMap, {})
         /\ UNCHANGED <<cache, version_control>>

\* create_new_version that appends to the shadow log as well
CreateNewVersion_writes_shadow ==
    IF ~IsSome(Backup_get_latest_version(backup))
    THEN /\ last' = Call("create_new_version", <<>>, <<>>, 0, Err("VersionNotFound"))
         /\ UNCHANGED <<backup, cache, version_control, ghost>>
    ELSE /\ CanWrite
         /\ backup' = Backup_add_version(backup, Unwrap(Backup_get_latest_version(backup)), now)
         /\ version_control' = VersionControl_add_version(
                version_control, Unwrap(Backup_get_latest_version(backup)), now)
         /\ last' = Call("create_new_version", <<>>, <<>>, 0, Ok(<<>>))
         /\ ghost' = GhostWrite(IF ghost.pure THEN LastSnap ELSE EmptyMap, {})
         /\ UNCHANGED cache

\* StorageIndex::create_new_version
CreateNewVersion ==
    LET latest == Backup_get_latest_version(backup)
    IN  IF ~IsSome(latest)
        THEN /\ last' = Call("create_new_version", <<>>, <<>>, 0, Err("VersionNotFound"))
             /\ UNCHANGED <<backup, cache, version_control, ghost>>
        ELSE /\ CanWrite
             /\ backup' = Backup_add_version(backup, Unwrap(latest), now)
             /\ last' = Call("create_new_version", <<>>, <<>>, 0, Ok(<<>>))
             /\ ghost' = GhostWrite(IF ghost.pure THEN LastSnap ELSE EmptyMap, {})
             /\ UNCHANGED <<cache, version_control>>

\* StorageIndex::rollback
Rollback(version) ==
    LET r == Backup_rollback(backup, version)
        cleared == CacheManager_clear(cache)
    IN  /\ backup' = r.backup
        /\ IF ~IsSome(r.res)
           THEN /\ cache' = cleared
                /\ version_control' = version_control
                /\ last' = Call("rollback", <<>>, <<>>, version, Err("VersionNotFound"))
           ELSE /\ cache' \in CacheAfterInsert(cleared, Unwrap(r.res), now)
                /\ version_control' = VersionControl_rollback(version_control, version).vc
                /\ last' = Call("rollback", <<>>, <<>>, version, Ok(Unwrap(r.res)))
        /\ ghost' = [ghost EXCEPT
                        !.pure = FALSE,
                        !.snaps = <<>>,
                        !.written = IF ghost.pure /\ IsSome(r.res) THEN ghost.written ELSE {},
                        !.expect = IF ghost.pure /\ IsSome(r.res)
                                   THEN Some(ghost.snaps[version + 1]) ELSE None]

\* StorageIndex::set_max_versions
SetMaxVersions(max_versions) ==
    /\ backup' = Backup_set_max_versions(backup, max_versions)
    /\ version_control' = VersionControl_set_max_versions(version_control, max_versions)
    /\ last' = Call("set_max_versions", <<>>, max_versions, 0, Ok(<<>>))
    /\ ghost' = [ghost EXCEPT !.pure = FALSE, !.snaps = <<>>, !.written = {}, !.expect = None,
                              !.max_in_force = max_versions]
    /\ UNCHANGED cache

\* StorageIndex::clear_history
ClearHistory ==
    /\ backup' = Backup_clear_history(backup)
    /\ version_control' = VersionControl_clear_history(version_control)
    /\ last' = Call("clear_history", <<>>, <<>>, 0, Ok(<<>>))
    /\ ghost' = [ghost EXCEPT !.pure = FALSE, !.snaps = <<>>, !.written = {}, !.expect = None]
    /\ UNCHANGED cache

\* StorageIndex::clear_cache
ClearCache ==
    /\ cache' = CacheManager_clear(cache)
    /\ last' = Call("clear_cache", <<>>, <<>>, 0, Ok(<<>>))
    /\ UNCHANGED <<backup, version_control, ghost>>

\* StorageIndex::evict_expired_cache
EvictExpiredCache ==
    /\ cache' = CacheManager_evict_expired(cache, now)
    /\ last' = Call("evict_expired_cache", <<>>, <<>>, 0, Ok(<<>>))
    /\ UNCHANGED <<backup, version_control, ghost>>

\* StorageIndex::get_version_history
StorageIndex_get_version_history(shadow) ==
    [i \in 1..Len(shadow.versions) |-> shadow.versions[i].fragment]

\* StorageIndex::get_max_versions
StorageIndex_get_max_versions(b) == Backup_get_max_versions(b)

\* time passes between calls
Tick ==
    /\ now < MaxTime
    /\ now' = now + 1
    /\ last' = Call("tick", <<>>, <<>>, 0, Ok(<<>>))

VCIdle == vc = VersionControl_new(None, 0) /\ vcg = [zero_given |-> FALSE]

\* the backup directory does not exist yet
NoFile == None
DiskIdle == disk = [metadata_json |-> NoFile, versions_bin |-> NoFile]

FragmentIdle == frag = Fragment_new("zstd", 3, None, 0)

Init ==
    /\ IndexInit
    /\ now = 0
    /\ calls = 0
    /\ last = Call("new", <<>>, <<>>, 0, Ok(<<>>))
    /\ VCIdle
    /\ DiskIdle
    /\ FragmentIdle

\* one call of the StorageIndex API
Step ==
    /\ calls < MaxCalls
    /\ calls' = calls + 1
    /\ UNCHANGED <<now, vc, vcg, disk, frag>>

DoInsert ==
    \E v \in Values, k \in {None} \cup {Some(j) : j \in KeyInputs} : Step /\ Insert(v, k)
DoGet == \E k \in KeyInputs : Step /\ Get(k)
DoRemove == \E k \in KeyInputs : Step /\ Remove(k)
DoCreateNewVersion == Step /\ CreateNewVersion
DoRollback == \E n \in 0..MaxVersion : Step /\ Rollback(n)
DoSetMaxVersions == \E m \in OptRetention : Step /\ SetMaxVersions(m)
DoClearHistory == Step /\ ClearHistory
DoClearCache == Step /\ ClearCache
DoEvictExpiredCache == Step /\ EvictExpiredCache
DoTick ==
    Tick /\ UNCHANGED <<backup, cache, version_control, ghost, calls, vc, vcg, disk, frag>>

Next ==
    \/ DoInsert
    \/ DoGet
    \/ DoRemove
    \/ DoCreateNewVersion
    \/ DoRollback
    \/ DoSetMaxVersions
    \/ DoClearHistory
    \/ DoClearCache
    \/ DoEvictExpiredCache
    \/ DoTick

Spec == Init /\ [][Next]_vars

\* ------------------------------------------------------------- persistence
\* an Option in JSON: null, or the number
JsonOfOption(o) == IF IsSome(o) THEN <<"number", Unwrap(o)>> ELSE <<"null">>

\* serde_json::to_string(&metadata): the fields by name, in declaration order
serde_json_to_string(m) ==
    << <<"creation_date", m.creation_date>>,
       <<"fragment_count", m.fragment_count>>,
       <<"total_size", m.total_size>>,
       <<"version_count", m.version_count>>,
       <<"compression_level", JsonOfOption(m.compression_level)>>,
       <<"max_versions", JsonOfOption(m.max_versions)>> >>

\* the value a JSON object gives a field
JsonField(json, name) == json[CHOOSE i \in 1..Len(json) : json[i][1] = name][2]

JsonOption(x) == IF x[1] = "null" THEN None ELSE Some(x[2])

\* serde_json::from_str::<BackupMetadata>
serde_json_from_str(json) ==
    [ creation_date |-> JsonField(json, "creation_date"),
      fragment_count |-> JsonField(json, "fragment_count"),
      total_size |-> JsonField(json, "total_size"),
      version_count |-> JsonField(json, "version_count"),
      compression_level |-> JsonOption(JsonField(json, "compression_level")),
      max_versions |-> JsonOption(JsonField(json, "max_versions")) ]

\* bincode writes a struct as its fields in declaration order, a Vec or a map
\* as its elements in order, an Option as a tag and the value
RECURSIVE Table_entries(_, _)
Table_entries(table, keys) ==
    IF keys = {} THEN <<>>
    ELSE LET k == FirstKey(keys)
         IN  << <<k, table[k]>> >> \o Table_entries(table, keys \ {k})

bincode_Option(o) == IF IsSome(o) THEN <<1, Unwrap(o)>> ELSE <<0>>

bincode_Metadata(m) ==
    << m.creation_date, m.last_modified, m.compression, m.compression_level,
       bincode_Option(m.compression_dict), m.size >>

bincode_Fragment(f) ==
    << Table_entries(f.table, DOMAIN f.table), f.hash, bincode_Metadata(f.metadata) >>

bincode_Version(v) == << v.creation_date, v.version, bincode_Fragment(v.fragment) >>

\* bincode::serialize(&self.version_control)
bincode_serialize(log) ==
    << [i \in 1..Len(log.versions) |-> bincode_Version(log.versions[i])],
       bincode_Option(log.max_versions) >>

from_bincode_Option(b) == IF b[1] = 1 THEN Some(b[2]) ELSE None

from_bincode_Table(entries) ==
    [k \in {entries[i][1] : i \in 1..Len(entries)} |->
        entries[CHOOSE i \in 1..Len(entries) : entries[i][1] = k][2]]

from_bincode_Metadata(b) ==
    [ creation_date |-> b[1],
      last_modified |-> b[2],
      compression |-> b[3],
      compression_level |-> b[4],
      compression_dict |-> from_bincode_Option(b[5]),
      size |-> b[6] ]

from_bincode_Fragment(b) ==
    [ table |-> from_bincode_Table(b[1]),
      hash |-> b[2],
      metadata |-> from_bincode_Metadata(b[3]) ]

from_bincode_Version(b) ==
    [ creation_date |-> b[1], version |-> b[2], fragment |-> from_bincode_Fragment(b[3]) ]

\* bincode::deserialize::<VersionControl>
bincode_deserialize(b) ==
    [ versions |-> [i \in 1..Len(b[1]) |-> from_bincode_Version(b[1][i])],
      max_versions |-> from_bincode_Option(b[2]) ]

\* level.unwrap_or(3)
level_compression(level) == IF IsSome(level) THEN Unwrap(level) ELSE 3

\* Backup::save_to_disk: the files written, and the Backup after
Backup_save_to_disk(b, level) ==
    [ disk |-> [ metadata_json |-> Some(serde_json_to_string(b.metadata)),
                 versions_bin |-> Some(compress_bytes(bincode_serialize(b.version_control),
                                                      level_compression(level))) ],
      backup |-> [b EXCEPT !.metadata.compression_level = Some(level_compression(level))] ]

\* Backup::load_from_disk
Backup_load_from_disk(d) ==
    IF ~IsSome(d.metadata_json) \/ ~IsSome(d.versions_bin) THEN Err("IoError")
    ELSE LET metadata == serde_json_from_str(Unwrap(d.metadata_json))
             versions_data == decompress_bytes(Unwrap(d.versions_bin))
         IN  IF IsErr(versions_data) THEN Err("IoError")
             ELSE LET log == bincode_deserialize(versions_data[2])
                      latest == VersionControl_get_latest_version(log)
                  IN  IF ~IsSome(latest) THEN Err("NoVersionsFound")
                      ELSE Ok([ metadata |-> metadata,
                                version_control |-> log,
                                hash |-> Sha256(Fragment_to_bytes(Unwrap(latest).fragment)) ])

\* load_from_backup that installs nothing
CacheManager_load_from_backup_skips(cm, b, t) == {cm}

\* CacheManager::load_from_backup: the caches the call can leave
CacheManager_load_from_backup(cm, b, t) ==
    IF IsSome(Backup_get_latest_version(b))
    THEN CacheAfterInsert(cm, Unwrap(Backup_get_latest_version(b)), t)
    ELSE {cm}

\* StorageIndex::save_to_disk
SaveToDisk(level) ==
    LET r == Backup_save_to_disk(backup, level)
    IN  /\ disk' = r.disk
        /\ backup' = r.backup
        /\ last' = Call("save_to_disk", <<>>, level, 0, Ok(<<>>))
        /\ ghost' = [ghost EXCEPT !.saved_max = Some(ghost.max_in_force)]
        /\ UNCHANGED <<cache, version_control>>

\* StorageIndex::load_from_disk: on success the Index is the loaded one
LoadFromDisk(cache_config) ==
    LET r == Backup_load_from_disk(disk)
    IN  IF IsErr(r)
        THEN /\ last' = Call("load_from_disk", <<>>, <<>>, 0, Err("BackupError"))
             /\ UNCHANGED <<backup, cache, version_control, ghost>>
        ELSE LET loaded == r[2]
                 shadow == VersionControl_new(Backup_get_max_versions(loaded), now)
             IN  /\ backup' = loaded
                 /\ cache' \in CacheManager_load_from_backup(CacheManager_new(cache_config), loaded, now)
                 /\ version_control' =
                        IF IsSome(Backup_get_latest_version(loaded))
                        THEN VersionControl_add_version(
                                shadow, Unwrap(Backup_get_latest_version(loaded)), now)
                        ELSE shadow
                 /\ last' = Call("load_from_disk", <<>>, <<>>, 0, Ok(<<>>))
                 /\ ghost' = [ghost EXCEPT !.pure = FALSE, !.snaps = <<>>, !.written = {},
                                           !.expect = None,
                                           !.max_in_force = Backup_get_max_versions(loaded)]

\* the levels a caller passes to save_to_disk
Levels == {None, Some(1)}

\* a call of the StorageIndex API that writes the disk
DiskStep ==
    /\ calls < MaxCalls
    /\ calls' = calls + 1
    /\ UNCHANGED <<now, vc, vcg, frag>>

DoSaveToDisk == \E level \in Levels : DiskStep /\ SaveToDisk(level)
DoLoadFromDisk == \E cfg \in CacheConfigs : Step /\ LoadFromDisk(cfg)

\* the Index that is saved has a cache of the largest capacity
InitDisk == Init /\ cache.config.max_size = MaxCacheSize

NextDisk ==
    \/ DoInsert
    \/ DoGet
    \/ DoRemove
    \/ DoCreateNewVersion
    \/ DoRollback
    \/ DoSetMaxVersions
    \/ DoClearHistory
    \/ DoClearCache
    \/ DoSaveToDisk
    \/ DoLoadFromDisk
    \/ DoTick

SpecDisk == InitDisk /\ [][NextDisk]_vars

\* ----------------------------------------- a VersionControl on its own
\* the Fragments a caller hands to add_version
FragmentInputs(t) ==
    {Fragment_new("zstd", 3, None, t)}
        \cup {Fragment_insert(Fragment_new("zstd", 3, None, t), v, Sha256(v), t).frag : v \in Values}

\* the Index is not used: it stays as constructed
IndexIdle ==
    LET idx == StorageIndex_new([max_size |-> MaxCacheSize, ttl |-> MaxTtl,
                                 eviction_strategy |-> "LeastRecentlyUsed"], None, 0)
    IN  /\ backup = idx.backup
        /\ cache = idx.cache
        /\ version_control = idx.version_control
        /\ ghost = [ pure |-> FALSE, snaps |-> <<>>, written |-> {}, expect |-> None,
                     reused |-> FALSE, max_created |-> 1, max_in_force |-> None, saved_max |-> None,
                     mutations |-> 0 ]
        /\ calls = 0

VCStep == UNCHANGED <<backup, cache, version_control, ghost, calls, now, disk, frag>>

VCAddVersion ==
    \E f \in FragmentInputs(now) :
        /\ IF Len(vc.versions) = 0 THEN TRUE
           ELSE vc.versions[Len(vc.versions)].version < MaxVersion
        /\ vc' = VersionControl_add_version(vc, f, now)
        /\ last' = Call("add_version", <<>>, <<>>, 0, Ok(<<>>))
        /\ UNCHANGED vcg
        /\ VCStep

VCRollback ==
    \E n \in 0..MaxVersion :
        /\ vc' = VersionControl_rollback(vc, n).vc
        /\ last' = Call("rollback", <<>>, <<>>, n,
                        IF IsSome(VersionControl_rollback(vc, n).res)
                        THEN Ok(<<>>) ELSE Err("None"))
        /\ UNCHANGED vcg
        /\ VCStep

VCSetMaxVersions ==
    \E m \in OptRetention :
        /\ vc' = VersionControl_set_max_versions(vc, m)
        /\ vcg' = [vcg EXCEPT !.zero_given = vcg.zero_given \/ m = Some(0)]
        /\ last' = Call("set_max_versions", <<>>, m, 0, Ok(<<>>))
        /\ VCStep

VCClearHistory ==
    /\ vc' = VersionControl_clear_history(vc)
    /\ last' = Call("clear_history", <<>>, <<>>, 0, Ok(<<>>))
    /\ UNCHANGED vcg
    /\ VCStep

InitVC ==
    /\ IndexIdle
    /\ now = 0
    /\ last = Call("new", <<>>, <<>>, 0, Ok(<<>>))
    /\ DiskIdle
    /\ FragmentIdle
    /\ \E m \in OptRetention :
        /\ vc = VersionControl_new(m, 0)
        /\ vcg = [zero_given |-> m = Some(0)]

NextVC ==
    \/ VCAddVersion
    \/ VCRollback
    \/ VCSetMaxVersions
    \/ VCClearHistory
    \/ DoTick

SpecVC == InitVC /\ [][NextVC]_vars

\* ----------------------------------------------- a Fragment on its own
\* the dictionaries a caller gives Fragment::new
Dicts == {None, Some(<<7>>)}

\* the Fragments a caller hands to append
AppendInputs(t) ==
    {Fragment_insert(g, v, Sha256(v), t).frag : g \in FragmentInputs(t), v \in Values}

\* a call of the Fragment API
FragStep ==
    /\ calls < MaxCalls
    /\ calls' = calls + 1
    /\ UNCHANGED <<backup, cache, version_control, ghost, now, vc, vcg, disk>>

FragInsert ==
    \E v \in Values, k \in ValueKeys :
        /\ frag' = Fragment_insert(frag, v, k, now).frag
        /\ last' = Call("Fragment::insert", k, v, 0, Fragment_insert(frag, v, k, now).res)
        /\ FragStep

FragRemove ==
    \E k \in ValueKeys :
        /\ frag' = Fragment_remove(frag, k, now).frag
        /\ last' = Call("Fragment::remove", k, <<>>, 0, Ok(Fragment_remove(frag, k, now).res))
        /\ FragStep

FragClear ==
    /\ frag' = Fragment_clear(frag, now)
    /\ last' = Call("Fragment::clear", <<>>, <<>>, 0, Ok(<<>>))
    /\ FragStep

FragPopFirst ==
    /\ frag' = Fragment_pop_first(frag, now).frag
    /\ last' = Call("Fragment::pop_first", <<>>, <<>>, 0, Fragment_pop_first(frag, now).res)
    /\ FragStep

FragPopLast ==
    /\ frag' = Fragment_pop_last(frag, now).frag
    /\ last' = Call("Fragment::pop_last", <<>>, <<>>, 0, Fragment_pop_last(frag, now).res)
    /\ FragStep

FragAppend ==
    \E other \in AppendInputs(now) :
        /\ frag' = Fragment_append(frag, other, now).frag
        /\ last' = Call("Fragment::append", <<>>, other, 0, Ok(<<>>))
        /\ FragStep

\* StorageIndex::get_metadata
StorageIndex_get_metadata(b) ==
    IF IsSome(Backup_get_latest_version(b))
    THEN Ok(Unwrap(Backup_get_latest_version(b)).metadata)
    ELSE Err("VersionNotFound")

InitFragment ==
    /\ \E cfg \in CacheConfigs, mv \in OptRetention :
            /\ cfg.max_size = MaxCacheSize
            /\ cfg.eviction_strategy = "LeastRecentlyUsed"
            /\ mv \in {None, Some(1)}
            /\ backup = StorageIndex_new(cfg, mv, 0).backup
            /\ cache = StorageIndex_new(cfg, mv, 0).cache
            /\ version_control = StorageIndex_new(cfg, mv, 0).version_control
            /\ ghost = [ pure |-> FALSE, snaps |-> <<>>, written |-> {}, expect |-> None,
                         reused |-> FALSE, max_created |-> 1, max_in_force |-> mv, saved_max |-> None,
                         mutations |-> 0 ]
    /\ calls = 0
    /\ now = 0
    /\ last = Call("new", <<>>, <<>>, 0, Ok(<<>>))
    /\ VCIdle
    /\ DiskIdle
    /\ \E dict \in Dicts : frag = Fragment_new("zstd", 3, dict, 0)

NextFragment ==
    \/ FragInsert
    \/ FragRemove
    \/ FragClear
    \/ FragPopFirst
    \/ FragPopLast
    \/ FragAppend
    \/ DoInsert
    \/ DoRemove
    \/ DoRollback
    \/ DoTick

SpecFragment == InitFragment /\ [][NextFragment]_vars

\* --------------------------------------------- a CacheManager on its own
\* the Fragments a caller hands to CacheManager::insert
CacheFragments == FragmentInputs(0) \cup AppendInputs(0)

\* the keys a caller passes to CacheManager::get and remove
CacheKeys == {Sha256(Fragment_to_bytes(f)) : f \in CacheFragments}

\* the Backups load_from_backup reads
CacheBackups == {Backup_new(f, None, 0) : f \in FragmentInputs(0)}

\* a call of the CacheManager API
CacheStep == UNCHANGED <<backup, version_control, calls, now, vc, vcg, disk, frag>>

\* whether the call dropped an entry to make room
Evicted(before, after) == [evicted |-> ~(DOMAIN before.cache \subseteq DOMAIN after.cache)]

CMInsert ==
    \E f \in CacheFragments :
        \E o \in CacheManager_insert(cache, f, now) :
            /\ cache' = o.cm
            /\ last' = Call("CacheManager::insert", Sha256(Fragment_to_bytes(f)), f, 0, o.res)
            /\ ghost' = Evicted(cache, o.cm)
            /\ CacheStep

CMGet ==
    \E k \in CacheKeys :
        /\ cache' = CacheManager_get(cache, k, now).cm
        /\ last' = Call("CacheManager::get", k, <<>>, 0, Ok(CacheManager_get(cache, k, now).res))
        /\ UNCHANGED ghost
        /\ CacheStep

CMRemove ==
    \E k \in CacheKeys :
        /\ cache' = CacheManager_remove(cache, k).cm
        /\ last' = Call("CacheManager::remove", k, <<>>, 0, Ok(CacheManager_remove(cache, k).res))
        /\ UNCHANGED ghost
        /\ CacheStep

CMClear ==
    /\ cache' = CacheManager_clear(cache)
    /\ last' = Call("CacheManager::clear", <<>>, <<>>, 0, Ok(<<>>))
    /\ UNCHANGED ghost
    /\ CacheStep

CMEvictExpired ==
    /\ cache' = CacheManager_evict_expired(cache, now)
    /\ last' = Call("CacheManager::evict_expired", <<>>, <<>>, 0, Ok(<<>>))
    /\ UNCHANGED ghost
    /\ CacheStep

CMLoadFromBackup ==
    /\ IsSome(Backup_get_latest_version(backup))
    /\ \E o \in CacheManager_insert(cache, Latest(backup), now) :
        /\ cache' = o.cm
        /\ last' = Call("CacheManager::load_from_backup",
                        Sha256(Fragment_to_bytes(Latest(backup))), Latest(backup), 0, o.res)
        /\ ghost' = Evicted(cache, o.cm)
    /\ CacheStep

InitCache ==
    /\ \E cfg \in CacheConfigs : cache = CacheManager_new(cfg)
    /\ backup \in CacheBackups
    /\ version_control = VersionControl_new(None, 0)
    /\ ghost = [evicted |-> FALSE]
    /\ calls = 0
    /\ now = 0
    /\ last = Call("new", <<>>, <<>>, 0, Ok(<<>>))
    /\ VCIdle
    /\ DiskIdle
    /\ FragmentIdle

NextCache ==
    \/ CMInsert
    \/ CMGet
    \/ CMRemove
    \/ CMClear
    \/ CMEvictExpired
    \/ CMLoadFromBackup
    \/ DoTick

SpecCache == InitCache /\ [][NextCache]_vars

\* --------------------------------------------------- serialization failure
\* Fragment::to_bytes returns Err when bincode cannot serialize the Metadata
\* (its SystemTime fields refuse a time before UNIX_EPOCH); the actions below
\* are the write path under that outcome.

\* CacheManager::insert when fragment.to_bytes() fails: InsertionError is
\* returned before the map is touched
CacheManager_insert_to_bytes_fails(cm, fragment, t) ==
    [ res |-> Err("InsertionError"), cm |-> cm ]

\* Backup::add_version when update_hash()? fails: the Version has been pushed
\* and the counts refreshed before the error is returned; the hash is left
Backup_add_version_to_bytes_fails(b, fragment, t) ==
    LET log == VersionControl_add_version(b.version_control, fragment, t)
    IN  [ res |-> Err("FragmentError"),
          backup |-> [b EXCEPT !.version_control = log,
                        !.metadata.fragment_count = VersionControl_get_version_count(log),
                        !.metadata.total_size = b.metadata.total_size + Fragment_len(fragment),
                        !.metadata.version_count = VersionControl_get_version_count(log)] ]

\* StorageIndex::insert when to_bytes() of the new Fragment fails
InsertToBytesFails(value, key_opt) ==
    LET latest == Backup_get_latest_version(backup)
        key == IF IsSome(key_opt) THEN Unwrap(key_opt) ELSE Sha256(value)
    IN  IF ~IsSome(latest)
        THEN /\ last' = Call("insert", key, value, 0, Err("VersionNotFound"))
             /\ UNCHANGED <<backup, cache, version_control, ghost>>
        ELSE LET r == Fragment_insert(Unwrap(latest), value, key, now)
                 c == CacheManager_insert_to_bytes_fails(cache, r.frag, now)
                 a == Backup_add_version_to_bytes_fails(backup, r.frag, now)
             IN  /\ CanWrite
                 /\ cache' = c.cm
                 /\ backup' = a.backup
                 /\ last' = Call("insert", key, value, 0, Err("BackupError"))
                 /\ UNCHANGED <<version_control, ghost>>

DoInsertToBytesFails ==
    \E v \in Values, k \in {None} \cup {Some(j) : j \in KeyInputs} :
        Step /\ InsertToBytesFails(v, k)

NextFault ==
    \/ DoInsert
    \/ DoInsertToBytesFails
    \/ DoGet
    \/ DoSetMaxVersions
    \/ DoTick

SpecFault == Init /\ [][NextFault]_vars

\* ------------------------------------------------------------------ claims
IsWrite(op) == op \in {"insert", "remove", "create_new_version"}
BackupLog == backup.version_control.versions
ShadowLog == version_control.versions

\* C1: after a successful insert(v, k), get(k) returns v.
C1_InsertThenGet ==
    (last.op = "insert" /\ IsOk(last.res))
        => StorageIndex_get_result(backup, cache, last.key) = Ok(last.value)

\* C2: remove(k) of a key the latest Fragment maps to plaintext v returns v,
\* and get(k) right after returns KeyNotFound.
C2_RemoveReturnsPlaintext ==
    (last.op = "remove" /\ IsOk(last.res))
        => /\ last.res = last.value
           /\ StorageIndex_get_result(backup, cache, last.key) = Err("KeyNotFound")

C2_Witness ==
    /\ last.op = "remove"
    /\ IsOk(last.res)
    /\ last.res[2] \in Values

\* the keys get is probed with after a rollback
ProbeKeys == KeyInputs \cup ghost.written

\* C3: with no retention bound, after successful insert / remove /
\* create_new_version calls, a successful rollback(n) makes every later get(k)
\* return what k mapped to in Version n (Versions 0 and 1 empty, Version
\* n >= 2 the map right after the (n-1)-th version-producing call).
C3_RollbackRestoresVersion ==
    IsSome(ghost.expect)
        => \A k \in ProbeKeys :
                StorageIndex_get_result(backup, cache, k) = MapGet(Unwrap(ghost.expect), k)

C3_Witness ==
    /\ IsSome(ghost.expect)
    /\ last.op = "rollback"
    /\ last.version >= 2
    /\ DOMAIN Unwrap(ghost.expect) # {}
    /\ \E k \in ghost.written : k \notin DOMAIN Unwrap(ghost.expect)

\* C4: rollback(n) to a version number not in the Backup's log returns
\* VersionNotFound and leaves the Backup, the shadow log and the Cache as they
\* were.
C4_FailedRollbackChangesNothing ==
    [][(calls' = calls + 1 /\ last'.op = "rollback" /\ IsErr(last'.res))
        => (backup' = backup /\ version_control' = version_control /\ cache' = cache)]_vars

\* C5: the shadow log holds the same Versions as the Backup's log (same
\* length, same numbers, same Fragments).
C5_ShadowMirrorsBackup ==
    /\ Len(ShadowLog) = Len(BackupLog)
    /\ \A i \in 1..Len(ShadowLog) :
        /\ i <= Len(BackupLog)
        /\ ShadowLog[i].version = BackupLog[i].version
        /\ ShadowLog[i].fragment = BackupLog[i].fragment

\* C6 as stated: the Version a successful write creates is numbered above
\* every Version created before it in the instance.
C6_NumberAboveAllCreated ==
    (IsWrite(last.op) /\ IsOk(last.res)) => ~ghost.reused

\* C6 as amended: a successful write pushes exactly one new Version onto the
\* Backup's log, numbered one above the latest at the call and so above every
\* Version then in the log; retention drops only oldest Versions.
C6_WriteAppendsNextNumber ==
    [][(calls' = calls + 1 /\ IsWrite(last'.op) /\ IsOk(last'.res))
        => LET old == backup.version_control.versions
               new == backup'.version_control.versions
               d == Len(old) + 1 - Len(new)
           IN  /\ Len(old) >= 1
               /\ Len(new) >= 1
               /\ d >= 0
               /\ new[Len(new)].version = old[Len(old)].version + 1
               /\ \A i \in 1..Len(old) : old[i].version < new[Len(new)].version
               /\ SubSeq(new, 1, Len(new) - 1) = SubSeq(old, d + 1, Len(old))
               /\ (backup.version_control.max_versions = None => d = 0)]_vars

C6_Witness ==
    /\ IsWrite(last.op)
    /\ IsOk(last.res)
    /\ ghost.reused
    /\ Len(BackupLog) >= 2

\* C7 as stated: while max_versions = Some(m) is in force both logs have
\* length <= m and get_max_versions() returns Some(m).
C7_RetentionBound ==
    IsSome(ghost.max_in_force)
        => /\ Len(BackupLog) <= Unwrap(ghost.max_in_force)
           /\ Len(ShadowLog) <= Unwrap(ghost.max_in_force)
           /\ StorageIndex_get_max_versions(backup) = ghost.max_in_force

\* C7 as amended: get_max_versions() returns the bound in force, and while
\* that is Some(m) with m >= 1 both logs have length <= m.
C7_RetentionBoundPositive ==
    /\ StorageIndex_get_max_versions(backup) = ghost.max_in_force
    /\ (IsSome(ghost.max_in_force) /\ Unwrap(ghost.max_in_force) >= 1)
        => /\ Len(BackupLog) <= Unwrap(ghost.max_in_force)
           /\ Len(ShadowLog) <= Unwrap(ghost.max_in_force)

C7_Witness ==
    /\ ghost.max_in_force = Some(1)
    /\ last.op = "insert"
    /\ IsOk(last.res)
    /\ Len(BackupLog) = 1
    /\ Len(ShadowLog) = 1
    /\ BackupLog[1].version >= 2

\* C8 as stated: a VersionLog always holds at least one Version, whatever
\* max_versions was given.
C8_LogNeverEmpty == IsSome(VersionControl_get_latest_version(vc))

\* C8 as amended: a VersionLog that was never given max_versions = Some(0)
\* always holds at least one Version.
C8_LogNeverEmptyPositive ==
    ~vcg.zero_given => IsSome(VersionControl_get_latest_version(vc))

C8_Witness ==
    /\ ~vcg.zero_given
    /\ vc.max_versions = Some(1)
    /\ last.op = "add_version"
    /\ Len(vc.versions) = 1
    /\ vc.versions[1].version >= 2

\* C9: a new VersionLog holds the genesis Version 0 alone, and in every state
\* each Version's number is its predecessor's number + 1.
C9_ConsecutiveNumbers ==
    /\ last.op = "new" => (Len(vc.versions) = 1 /\ vc.versions[1].version = 0)
    /\ \A i \in 2..Len(vc.versions) :
            vc.versions[i].version = vc.versions[i - 1].version + 1

C9_Witness ==
    /\ last.op = "add_version"
    /\ Len(vc.versions) >= 2
    /\ vc.versions[1].version >= 1
    /\ vc.versions[Len(vc.versions)].version < MaxVersion

\* C10 as stated: after clear_history, get_version_history() holds exactly
\* one Fragment, the latest before the call, and the Backup's latest Fragment
\* is the same as before.
C10_ClearHistoryLeavesLatest ==
    [][(calls' = calls + 1 /\ last'.op = "clear_history")
        => /\ Len(StorageIndex_get_version_history(version_control')) = 1
           /\ Len(version_control.versions) >= 1
           /\ StorageIndex_get_version_history(version_control')[1]
                = version_control.versions[Len(version_control.versions)].fragment
           /\ Backup_get_latest_version(backup') = Backup_get_latest_version(backup)]_vars

\* C10 as amended: if the shadow log holds a Version, then after
\* clear_history get_version_history() holds exactly one Fragment, the latest
\* before the call; an empty shadow log stays empty; the Backup's latest
\* Fragment is the same as before.
C10_ClearHistoryLeavesLatestIfAny ==
    [][(calls' = calls + 1 /\ last'.op = "clear_history")
        => /\ IF Len(version_control.versions) >= 1
              THEN StorageIndex_get_version_history(version_control')
                    = <<version_control.versions[Len(version_control.versions)].fragment>>
              ELSE StorageIndex_get_version_history(version_control') = <<>>
           /\ Backup_get_latest_version(backup') = Backup_get_latest_version(backup)]_vars

C10_Witness ==
    /\ last.op = "clear_history"
    /\ Len(ShadowLog) = 1
    /\ ShadowLog[1].version >= 1
    /\ Len(BackupLog) = 1
    /\ BackupLog[1].version >= 2

\* the last n elements of a sequence
LastN(s, n) == SubSeq(s, Len(s) - n + 1, Len(s))
Min(a, b) == IF a <= b THEN a ELSE b

\* C11: retention trimming drops only oldest Versions.  After
\* set_max_versions(Some(m)) with m >= 1 the log is the last min(len, m)
\* Versions of the log before; after add_version under Some(m) with m >= 1 it
\* is the last min(len + 1, m) Versions of the log before with the new Version
\* pushed, the new Version carrying the given Fragment and the number
\* latest + 1; set_max_versions(Some(1)) on a non-empty log leaves exactly the
\* most recent Version.
C11_TrimDropsOldest ==
    [][/\ (last'.op = "set_max_versions" /\ IsSome(last'.value) /\ Unwrap(last'.value) >= 1)
            => /\ vc'.versions = LastN(vc.versions, Min(Len(vc.versions), Unwrap(last'.value)))
               /\ (last'.value = Some(1) /\ Len(vc.versions) >= 1)
                    => vc'.versions = <<vc.versions[Len(vc.versions)]>>
       /\ (last'.op = "add_version" /\ IsSome(vc.max_versions) /\ Unwrap(vc.max_versions) >= 1)
            => LET m == Unwrap(vc.max_versions)
                   n == Min(Len(vc.versions) + 1, m)
                   new == vc'.versions[Len(vc'.versions)]
               IN  /\ Len(vc'.versions) = n
                   /\ SubSeq(vc'.versions, 1, n - 1) = LastN(vc.versions, n - 1)
                   /\ new.fragment \in FragmentInputs(now)
                   /\ Len(vc.versions) >= 1
                        => new.version = vc.versions[Len(vc.versions)].version + 1]_vars

C11_Witness ==
    /\ last.op = "add_version"
    /\ vc.max_versions = Some(2)
    /\ Len(vc.versions) = 2
    /\ vc.versions[1].version = 2
    /\ vc.versions[2].version = 3
    /\ vc.versions[1].fragment # vc.versions[2].fragment

\* C12: load_from_disk right after a successful save_to_disk of an Index with
\* a non-empty log succeeds, the loaded Backup's latest Fragment has the
\* to_bytes() of the saved one, and get(k) on the loaded Index returns what
\* get(k) returns on the saved Index, for every key.
C12_SaveLoadRoundTrip ==
    [][(/\ last.op = "save_to_disk"
        /\ IsOk(last.res)
        /\ Len(BackupLog) >= 1
        /\ calls' = calls + 1
        /\ last'.op = "load_from_disk")
        => /\ IsOk(last'.res)
           /\ IsSome(Backup_get_latest_version(backup'))
           /\ Fragment_to_bytes(Unwrap(Backup_get_latest_version(backup')))
                = Fragment_to_bytes(Unwrap(Backup_get_latest_version(backup)))
           /\ \A k \in KeyInputs :
                StorageIndex_get_result(backup', cache', k)
                    = StorageIndex_get_result(backup, cache, k)]_vars

\* C13: after every successful save_to_disk the compression_level stored in
\* metadata.json is the level versions.bin was compressed with in that save.
C13_MetadataRecordsLevel ==
    (last.op = "save_to_disk" /\ IsOk(last.res))
        => /\ IsSome(disk.metadata_json)
           /\ serde_json_from_str(Unwrap(disk.metadata_json)).compression_level
                = Some(level_compression(last.value))

\* C14: after any sequence of insert, remove (of a present or an absent key),
\* clear, pop_first, pop_last and append (as receiver) a Fragment's hash is
\* the SHA-256 of its table's bytes and its metadata.size is the number of
\* entries of its table; so the size get_metadata() reports is the number of
\* distinct keys of the Index's latest Fragment.
C14_HashAndSize ==
    /\ frag.hash = Sha256(Table_to_bytes(frag.table))
    /\ frag.metadata.size = Cardinality(DOMAIN frag.table)
    /\ IsSome(Backup_get_latest_version(backup))
        => /\ IsOk(StorageIndex_get_metadata(backup))
           /\ StorageIndex_get_metadata(backup)[2].size
                = Cardinality(DOMAIN Unwrap(Backup_get_latest_version(backup)).table)
           /\ Unwrap(Backup_get_latest_version(backup)).hash
                = Sha256(Table_to_bytes(Unwrap(Backup_get_latest_version(backup)).table))

C14_Witness ==
    /\ last.op = "Fragment::pop_last"
    /\ IsOk(last.res)
    /\ IsSome(last.res[2])
    /\ Cardinality(DOMAIN frag.table) = 1
    /\ IsSome(frag.metadata.compression_dict)
    /\ IsSome(Backup_get_latest_version(backup))
    /\ Cardinality(DOMAIN Unwrap(Backup_get_latest_version(backup)).table) = 1

\* C15: in every state, for every key, get(k) returns what looking k up in
\* the Backup's latest Fragment gives, also when the Cache answers.
C15_CacheCoherent ==
    IsSome(Backup_get_latest_version(backup))
        => \A k \in KeyInputs :
                StorageIndex_get_result(backup, cache, k) = GetFrom(Latest(backup), k)

\* C16: create_new_version changes no get result: for every key, get(k) after
\* it returns what get(k) returned before it; when it succeeds it pushes one
\* Version, numbered latest + 1, whose Fragment has the table of the previous
\* latest.
C16_CreateNewVersionKeepsReads ==
    [][(calls' = calls + 1 /\ last'.op = "create_new_version")
        => /\ \A k \in KeyInputs :
                StorageIndex_get_result(backup', cache', k)
                    = StorageIndex_get_result(backup, cache, k)
           /\ IsOk(last'.res)
                => /\ IsSome(Backup_get_latest_version(backup))
                   /\ IsSome(Backup_get_latest_version(backup'))
                   /\ Latest(backup').table = Latest(backup).table
                   /\ LatestNumber(backup') = LatestNumber(backup) + 1
           /\ IsErr(last'.res) => backup' = backup]_vars

C16_Witness ==
    /\ last.op = "create_new_version"
    /\ IsOk(last.res)
    /\ Len(BackupLog) >= 2
    /\ DOMAIN BackupLog[Len(BackupLog)].fragment.table # {}
    /\ BackupLog[Len(BackupLog)].fragment = BackupLog[Len(BackupLog) - 1].fragment
    /\ \E k \in KeyInputs : IsOk(StorageIndex_get_result(backup, cache, k))

\* C17: get(k) of a key absent from the latest Fragment returns KeyNotFound
\* and leaves the Backup (log and metadata) and the shadow log as they were;
\* the Cache gains at most the latest Fragment.
C17_GetAbsentKey ==
    [][(/\ calls' = calls + 1
        /\ last'.op = "get"
        /\ IsSome(Backup_get_latest_version(backup))
        /\ last'.key \notin DOMAIN Latest(backup).table)
        => /\ last'.res = Err("KeyNotFound")
           /\ backup' = backup
           /\ version_control' = version_control
           /\ \A h \in DOMAIN cache'.cache :
                \/ h \in DOMAIN cache.cache /\ cache'.cache[h].fragment = cache.cache[h].fragment
                \/ cache'.cache[h].fragment = Latest(backup)]_vars

C17_Witness ==
    /\ last.op = "get"
    /\ last.res = Err("KeyNotFound")
    /\ IsSome(Backup_get_latest_version(backup))
    /\ DOMAIN Latest(backup).table # {}
    /\ last.key \notin DOMAIN Latest(backup).table
    /\ Sha256(Fragment_to_bytes(Latest(backup))) \in DOMAIN cache.cache

\* C18: on an Index with no retention bound and no rollback or clear_history
\* the length of get_version_history() is 1 + the number of successful insert
\* and remove calls; create_new_version does not change it.
C18_HistoryLength ==
    ghost.pure
        => Len(StorageIndex_get_version_history(version_control)) = 1 + ghost.mutations

C18_Witness ==
    /\ ghost.pure
    /\ last.op = "create_new_version"
    /\ IsOk(last.res)
    /\ ghost.mutations = 1
    /\ Len(StorageIndex_get_version_history(version_control)) = 2
    /\ Len(BackupLog) = 4

\* C19: on an Index whose Backup holds a Version, clear_cache and
\* evict_expired_cache change no get result (for every key, get(k) after the
\* call returns what get(k) returned before it) and change neither the
\* Backup's log nor the shadow log.
C19_CacheMaintenanceInvisible ==
    [][(/\ calls' = calls + 1
        /\ last'.op \in {"clear_cache", "evict_expired_cache"}
        /\ IsSome(Backup_get_latest_version(backup)))
        => /\ \A k \in KeyInputs :
                StorageIndex_get_result(backup', cache', k)
                    = StorageIndex_get_result(backup, cache, k)
           /\ backup'.version_control = backup.version_control
           /\ version_control' = version_control]_vars

\* C20: in every Backup state metadata.fragment_count and
\* metadata.version_count both equal the length of the Backup's log.
C20_CountsTrackLogLength ==
    /\ backup.metadata.fragment_count = backup.metadata.version_count
    /\ backup.metadata.version_count = VersionControl_get_version_count(backup.version_control)

\* the Fragment a write of the last call's kind leaves, given the latest before
WrittenFragment(call, latest, t) ==
    IF call.op = "insert"
    THEN Fragment_insert(latest, call.value, call.key, t).frag
    ELSE Fragment_remove(latest, call.key, t).frag

\* C21: when the Cache refuses the insertion (InsertionError: nothing to
\* evict), insert and remove (of a present key) still return success, leave
\* the Cache as it was and push the new Version, with the written Fragment,
\* onto the Backup's log and onto the shadow log.
C21_CacheFailureDoesNotFailWrite ==
    [][(/\ calls' = calls + 1
        /\ last'.op \in {"insert", "remove"}
        /\ IsSome(Backup_get_latest_version(backup))
        /\ last'.op = "remove" => last'.key \in DOMAIN Latest(backup).table
        /\ \A o \in CacheManager_insert(cache, WrittenFragment(last', Latest(backup), now), now) :
                IsErr(o.res))
        => /\ IsOk(last'.res)
           /\ cache' = cache
           /\ Len(backup'.version_control.versions) >= 1
           /\ Latest(backup') = WrittenFragment(last', Latest(backup), now)
           /\ LatestNumber(backup') = LatestNumber(backup) + 1
           /\ Len(version_control'.versions) >= 1
           /\ version_control'.versions[Len(version_control'.versions)].fragment
                = WrittenFragment(last', Latest(backup), now)
           /\ Len(version_control.versions) >= 1
                => version_control'.versions[Len(version_control'.versions)].version
                    = version_control.versions[Len(version_control.versions)].version + 1]_vars

C21_Witness ==
    /\ last.op = "remove"
    /\ IsOk(last.res)
    /\ cache.config.max_size = 0
    /\ cache.cache = CacheManager_new(cache.config).cache
    /\ Len(BackupLog) >= 4
    /\ Len(ShadowLog) >= 3

\* C22: rollback(n) on a log that holds a Version numbered n returns that
\* Version's Fragment, keeps the Versions up to and including it unchanged
\* and removes exactly the Versions after it: the latest Version is number n
\* and the Version the next add_version creates is numbered n + 1.
C22_RollbackTruncatesAfterTarget ==
    [][(last'.op = "rollback" /\ \E i \in 1..Len(vc.versions) : vc.versions[i].version = last'.version)
        => LET n == last'.version
               p == CHOOSE i \in 1..Len(vc.versions) : vc.versions[i].version = n
               untrimmed == [vc' EXCEPT !.max_versions = None]
           IN  /\ IsOk(last'.res)
               /\ VersionControl_rollback(vc, n).res = Some(vc.versions[p].fragment)
               /\ vc'.versions = SubSeq(vc.versions, 1, p)
               /\ vc'.max_versions = vc.max_versions
               /\ vc'.versions[Len(vc'.versions)].version = n
               /\ \A f \in FragmentInputs(now) :
                    LET added == VersionControl_add_version(untrimmed, f, now).versions
                    IN  /\ added[Len(added)].version = n + 1
                        /\ added[Len(added)].fragment = f]_vars

C22_Witness ==
    /\ last.op = "rollback"
    /\ IsOk(last.res)
    /\ last.version = 2
    /\ Len(vc.versions) = 2
    /\ vc.versions[1].version = 1
    /\ vc.versions[2].version = 2
    /\ DOMAIN vc.versions[2].fragment.table # {}

\* C23: rollback(n) on a log that holds no Version numbered n returns none
\* and leaves the Versions and max_versions as they were; Backup::rollback
\* then leaves its metadata and its hash as they were too.
C23_RollbackMissingVersion ==
    [][(/\ calls' = calls + 1
        /\ last'.op = "rollback"
        /\ \A i \in 1..Len(BackupLog) : BackupLog[i].version # last'.version)
        => /\ IsErr(last'.res)
           /\ VersionControl_rollback(backup.version_control, last'.version).res = None
           /\ backup'.version_control.versions = backup.version_control.versions
           /\ backup'.version_control.max_versions = backup.version_control.max_versions
           /\ backup'.metadata = backup.metadata
           /\ backup'.hash = backup.hash
           /\ version_control' = version_control]_vars

C23_Witness ==
    /\ last.op = "rollback"
    /\ IsErr(last.res)
    /\ Len(BackupLog) >= 1
    /\ BackupLog[1].version >= 2
    /\ last.version < BackupLog[1].version
    /\ backup.metadata.total_size >= 1

\* C24: after a successful rollback(n) the last Fragment of
\* get_version_history() has the table of the Fragment rollback returned,
\* which is the Backup's latest Fragment.
C24_ShadowRolledBackToTarget ==
    (last.op = "rollback" /\ IsOk(last.res))
        => /\ Backup_get_latest_version(backup) = Some(last.res[2])
           /\ Len(StorageIndex_get_version_history(version_control)) >= 1
           /\ LET history == StorageIndex_get_version_history(version_control)
              IN  history[Len(history)].table = last.res[2].table

\* C25: after a successful rollback(n) on an Index of cache capacity >= 1 the
\* Cache holds exactly one entry, the rolled-back Fragment under the SHA-256
\* of its to_bytes().
C25_RollbackResetsCache ==
    (last.op = "rollback" /\ IsOk(last.res) /\ cache.config.max_size >= 1)
        => /\ DOMAIN cache.cache = {Sha256(Fragment_to_bytes(last.res[2]))}
           /\ cache.cache[Sha256(Fragment_to_bytes(last.res[2]))].fragment = last.res[2]
           /\ last.res[2] = Latest(backup)

C25_Witness ==
    /\ last.op = "rollback"
    /\ IsOk(last.res)
    /\ cache.config.max_size = MaxCacheSize
    /\ Cardinality(DOMAIN cache.cache) = 1
    /\ DOMAIN last.res[2].table # {}
    /\ Len(BackupLog) = 3

\* C26: with cache capacity >= 1, right after every successful insert, every
\* successful remove and every get that misses the Cache, the Cache holds the
\* Backup's latest Fragment under the SHA-256 of its to_bytes().
C26_WriteThrough ==
    [][(/\ calls' = calls + 1
        /\ cache.config.max_size >= 1
        /\ \/ last'.op \in {"insert", "remove"} /\ IsOk(last'.res)
           \/ /\ last'.op = "get"
              /\ last'.key \notin DOMAIN cache.cache
              /\ IsSome(Backup_get_latest_version(backup)))
        => /\ IsSome(Backup_get_latest_version(backup'))
           /\ Sha256(Fragment_to_bytes(Latest(backup'))) \in DOMAIN cache'.cache
           /\ cache'.cache[Sha256(Fragment_to_bytes(Latest(backup')))].fragment
                = Latest(backup')]_vars

C26_Witness ==
    /\ last.op = "get"
    /\ cache.config.max_size = 1
    /\ IsOk(last.res)
    /\ DOMAIN cache.cache = {Sha256(Fragment_to_bytes(Latest(backup)))}
    /\ calls = 3

\* the entries of a cache
Entries(cm) == DOMAIN cm.cache

\* C27: a CacheManager whose config is not changed never holds more than
\* config.max_size entries, whatever insert, get, remove, clear,
\* evict_expired and load_from_backup calls it has served.
C27_CacheWithinCapacity == Cardinality(Entries(cache)) <= cache.config.max_size

C27_Witness ==
    /\ last.op = "CacheManager::insert"
    /\ IsOk(last.res)
    /\ ghost.evicted
    /\ cache.config.max_size = 1
    /\ Cardinality(Entries(cache)) = 1
    /\ now = MaxTime
    /\ \E k \in Entries(cache) : DOMAIN cache.cache[k].fragment.table # {}

\* C28: insert (or load_from_backup) into a cache that is full and not empty
\* removes exactly one entry, then places the new one, and keeps every other
\* entry as it was; under LeastRecentlyUsed the removed entry has the minimal
\* last_accessed, so an entry accessed after all the others stays.
C28_EvictsExactlyOne ==
    [][(/\ last'.op \in {"CacheManager::insert", "CacheManager::load_from_backup"}
        /\ Cardinality(Entries(cache)) >= cache.config.max_size
        /\ Entries(cache) # {})
        => /\ IsOk(last'.res)
           /\ \E e \in Entries(cache) :
                /\ Entries(cache') = (Entries(cache) \ {e}) \cup {last'.key}
                /\ \A k \in Entries(cache) \ {e, last'.key} : cache'.cache[k] = cache.cache[k]
                /\ cache.config.eviction_strategy = "LeastRecentlyUsed"
                    => \A j \in Entries(cache) :
                            cache.cache[e].last_accessed <= cache.cache[j].last_accessed
           /\ cache'.cache[last'.key] = [fragment |-> last'.value, last_accessed |-> now]
           /\ cache.config.eviction_strategy = "LeastRecentlyUsed"
                => \A k \in Entries(cache) :
                        (\A j \in Entries(cache) \ {k} :
                            cache.cache[j].last_accessed < cache.cache[k].last_accessed)
                        => (Cardinality(Entries(cache)) = 1 \/ k \in Entries(cache'))]_vars

C28_Witness ==
    /\ last.op = "CacheManager::insert"
    /\ IsOk(last.res)
    /\ ghost.evicted
    /\ cache.config.max_size = 2
    /\ cache.config.eviction_strategy = "LeastRecentlyUsed"
    /\ Cardinality(Entries(cache)) = 2
    /\ now = MaxTime
    /\ \A k \in Entries(cache) : cache.cache[k].last_accessed = MaxTime

\* C29: evict_expired() at time now removes exactly the entries with
\* now - last_accessed >= ttl and keeps the others as they were.
C29_EvictExpiredExact ==
    [][(last'.op = "CacheManager::evict_expired")
        => /\ \A k \in Entries(cache) :
                IF now - cache.cache[k].last_accessed >= cache.config.ttl
                THEN k \notin Entries(cache')
                ELSE k \in Entries(cache') /\ cache'.cache[k] = cache.cache[k]
           /\ Entries(cache') \subseteq Entries(cache)
           /\ cache'.config = cache.config]_vars

C29_Witness ==
    /\ last.op = "CacheManager::evict_expired"
    /\ now = MaxTime
    /\ Cardinality(Entries(cache)) = 1
    /\ cache.config.max_size = 2
    /\ \A k \in Entries(cache) : cache.cache[k].last_accessed = MaxTime

\* C30: get(key) on a hit sets the entry's last_accessed to now, returns its
\* Fragment and changes no other entry; on a miss it returns none and leaves
\* the cache as it was.
C30_GetTouchesOnlyHit ==
    [][(last'.op = "CacheManager::get")
        => IF last'.key \in Entries(cache)
           THEN /\ last'.res = Ok(Some(cache.cache[last'.key].fragment))
                /\ Entries(cache') = Entries(cache)
                /\ cache'.cache[last'.key]
                    = [fragment |-> cache.cache[last'.key].fragment, last_accessed |-> now]
                /\ \A k \in Entries(cache) \ {last'.key} : cache'.cache[k] = cache.cache[k]
                /\ cache'.config = cache.config
           ELSE /\ last'.res = Ok(None)
                /\ cache' = cache]_vars

C30_Witness ==
    /\ last.op = "CacheManager::get"
    /\ IsSome(last.res[2])
    /\ Cardinality(Entries(cache)) = 2
    /\ cache.cache[last.key].last_accessed = MaxTime
    /\ \E k \in Entries(cache) : cache.cache[k].last_accessed < MaxTime

\* C31: whenever the Backup's log is non-empty (after new, add_version,
\* rollback, set_max_versions, clear_history or load_from_disk), Backup.hash is
\* the SHA-256 of the latest Fragment's to_bytes().
C31_BackupHashOfLatest ==
    IsSome(Backup_get_latest_version(backup))
        => backup.hash = Sha256(Fragment_to_bytes(Latest(backup)))

C31_Witness ==
    /\ last.op = "load_from_disk"
    /\ IsOk(last.res)
    /\ Len(BackupLog) >= 2
    /\ Fragment_len(Latest(backup)) > 0
    /\ backup.hash = Sha256(Fragment_to_bytes(Latest(backup)))
    /\ backup.hash # Sha256(Fragment_to_bytes(BackupLog[1].fragment))

\* C32: remove(k) for a key absent from the latest Fragment returns
\* KeyNotFound and changes nothing: no Version is appended to either log, the
\* Backup's metadata and hash stay as they were, and the Cache is untouched.
C32_RemoveAbsentKey ==
    [][(/\ last'.op = "remove"
        /\ IsSome(Backup_get_latest_version(backup))
        /\ last'.key \notin DOMAIN Latest(backup).table)
        => /\ last'.res = Err("KeyNotFound")
           /\ backup' = backup
           /\ version_control' = version_control
           /\ cache' = cache]_vars

C32_Witness ==
    /\ last.op = "remove"
    /\ last.res = Err("KeyNotFound")
    /\ IsSome(Backup_get_latest_version(backup))
    /\ Fragment_len(Latest(backup)) > 0
    /\ last.key \notin DOMAIN Latest(backup).table
    /\ Latest(backup).hash \notin Entries(cache)

\* C33: a successful insert(v, k) returns none when k was absent from the
\* latest Fragment and otherwise the slot k held before, as stored (the
\* compressed bytes, not the plaintext); the new latest Fragment maps k to v
\* and every other key to what it held before.
C33_InsertReturnsPreviousSlot ==
    [][(last'.op = "insert" /\ IsOk(last'.res))
        => LET old == Latest(backup)
               new == Latest(backup')
               k == last'.key
           IN  /\ IF k \in DOMAIN old.table
                  THEN /\ last'.res[2] = Some(old.table[k])
                       /\ Unwrap(last'.res[2])
                            = Fragment_compress(old, GetFrom(old, k)[2])
                       /\ Unwrap(last'.res[2]) # GetFrom(old, k)[2]
                  ELSE last'.res[2] = None
               /\ GetFrom(new, k) = Ok(last'.value)
               /\ DOMAIN new.table = DOMAIN old.table \cup {k}
               /\ \A j \in DOMAIN old.table \ {k} : new.table[j] = old.table[j]]_vars

C33_Witness ==
    /\ last.op = "insert"
    /\ IsOk(last.res)
    /\ IsSome(last.res[2])
    /\ Unwrap(last.res[2]) # last.value
    /\ Fragment_decompress(Latest(backup), Unwrap(last.res[2])) # Ok(last.value)
    /\ GetFrom(Latest(backup), last.key) = Ok(last.value)
    /\ Fragment_len(Latest(backup)) = 2

C35_LoadRebuildsIndex ==
    (last.op = "load_from_disk" /\ IsOk(last.res))
        => /\ IsSome(ghost.saved_max)
           /\ StorageIndex_get_max_versions(backup) = Unwrap(ghost.saved_max)
           /\ IsSome(Backup_get_latest_version(backup))
           /\ LET history == StorageIndex_get_version_history(version_control)
                  h == Sha256(Fragment_to_bytes(Latest(backup)))
              IN  /\ Len(history) >= 1
                  /\ history[Len(history)] = Latest(backup)
                  /\ cache.config.max_size >= 1
                        => /\ h \in Entries(cache)
                           /\ cache.cache[h].fragment = Latest(backup)

C35_Witness ==
    /\ last.op = "load_from_disk"
    /\ IsOk(last.res)
    /\ ghost.saved_max = Some(Some(MaxRetention))
    /\ StorageIndex_get_max_versions(backup) = Some(MaxRetention)
    /\ Fragment_len(Latest(backup)) > 0
    /\ cache.config.max_size >= 1
    /\ Entries(cache) = {Sha256(Fragment_to_bytes(Latest(backup)))}
    /\ Len(StorageIndex_get_version_history(version_control)) = 2

\* the orders in which the keys of a set can be inserted
Orders(S) ==
    {s \in [1..Cardinality(S) -> S] : \A i, j \in 1..Cardinality(S) : i # j => s[i] # s[j]}

\* the keys of a set as the strictly ascending sequence
AscendingKeys(S) == CHOOSE s \in Orders(S) : \A i, j \in 1..Len(s) : i < j => LexLess(s[i], s[j])

\* a Table built by inserting the entries of table T in a given order of keys
RECURSIVE Rebuild(_, _, _)
Rebuild(acc, T, order) ==
    IF Len(order) = 0 THEN acc
    ELSE Rebuild(Table_insert(acc, T[order[1]], order[1]), T,
                 [i \in 1..(Len(order) - 1) |-> order[i + 1]])

\* the Tables with the content of T that other histories build: the entries
\* inserted in any order, on top of a slot that is overwritten or removed later
Rebuilds(T) ==
    {Rebuild(Table_new, T, s) : s \in Orders(DOMAIN T)}
        \cup {IF j \in DOMAIN T
              THEN Rebuild(Table_insert(Table_new, <<9>>, j), T, s)
              ELSE Table_remove(Rebuild(Table_insert(Table_new, <<9>>, j), T, s), j)
                : j \in ValueKeys, s \in Orders(DOMAIN T)}

\* the number a big-endian 32-bit field holds
BeValue(b) == ((b[1] * 256 + b[2]) * 256 + b[3]) * 256 + b[4]

\* the entries of T laid out one after the other in a given order of keys
RECURSIVE Layout(_, _, _)
Layout(T, order, i) ==
    IF i > Len(order) THEN <<>>
    ELSE order[i] \o u32_to_be_bytes(Len(T[order[i]])) \o T[order[i]] \o Layout(T, order, i + 1)

\* C36: Table.to_bytes() depends on the content only: Tables with the same
\* entries, whatever order and history of inserts and removes built them, give
\* the same bytes, and the bytes are the entries in ascending lexicographic key
\* order, each as the key bytes, the big-endian 32-bit value length and the
\* value bytes.
C36_ToBytesCanonical ==
    LET T == frag.table
    IN  /\ \A R \in Rebuilds(T) : R = T /\ Table_to_bytes(R) = Table_to_bytes(T)
        /\ Table_to_bytes(T) = Layout(T, AscendingKeys(DOMAIN T), 1)
        /\ \A k \in DOMAIN T :
              /\ Len(u32_to_be_bytes(Len(T[k]))) = 4
              /\ BeValue(u32_to_be_bytes(Len(T[k]))) = Len(T[k])

C36_Witness ==
    /\ last.op = "Fragment::insert"
    /\ last.res = Ok(None)
    /\ Cardinality(DOMAIN frag.table) = 2
    /\ last.key = FirstKey(DOMAIN frag.table)
    /\ Cardinality(Rebuilds(frag.table)) = 1
    /\ Table_to_bytes(frag.table)
          = Layout(frag.table, AscendingKeys(DOMAIN frag.table), 1)

\* C37: append(other) leaves both Fragments consistent: the receiver's hash and
\* size describe its merged table, and other, drained, has the hash of the
\* empty table and size 0.
C37_AppendLeavesBothConsistent ==
    [][(last'.op = "Fragment::append")
        => LET other == Fragment_append(frag, last'.value, now).other
           IN  /\ frag'.hash = Sha256(Table_to_bytes(frag'.table))
               /\ frag'.metadata.size = Table_len(frag'.table)
               /\ other.table = Table_new
               /\ other.hash = Sha256(Table_to_bytes(Table_new))
               /\ other.metadata.size = 0]_vars

\* C38: insert of a Fragment whose key is already in the cache only replaces
\* that entry, refreshing last_accessed: no other entry is removed and the
\* cache does not shrink, also when it is at capacity.
C38_ReinsertOnlyReplaces ==
    [][(last'.op = "CacheManager::insert" /\ last'.key \in Entries(cache))
        => /\ IsOk(last'.res)
           /\ Entries(cache') = Entries(cache)
           /\ cache'.cache[last'.key] = [fragment |-> last'.value, last_accessed |-> now]
           /\ \A k \in Entries(cache) \ {last'.key} : cache'.cache[k] = cache.cache[k]]_vars

====
